---- MODULE Spec2Model ----
(***************************************************************************)
(* Model of polybot-rs: OrderTracker (state/orders.rs), Position           *)
(* (state/position.rs), Book (state/book.rs), Market (state/market.rs),    *)
(* pricing / sizing / ladder / reconcile (strategy/).                      *)
(*                                                                         *)
(* Decimal quantities are modelled as integers (the code only adds,        *)
(* subtracts, multiplies and compares them).  Option<u16> is modelled with *)
(* None == -1.  A HashMap<u16, Vec<StandingOrder>> is a function whose     *)
(* DOMAIN is the key set; iteration order over a HashMap is unspecified,   *)
(* so a loop that stops at the first matching bucket is a choice among the *)
(* matching buckets.                                                       *)
(***************************************************************************)
EXTENDS Integers, Sequences, FiniteSets, TLC

VARIABLES
    tracker,    \* OrderTracker: [yes_orders, no_orders], price -> Seq(StandingOrder)
    last,       \* the last tracker call: [op, side, id, price, size, ret]
    position,   \* Position: [qty_yes, qty_no, cost_yes, cost_no]
    fills,      \* history: the apply_fill calls since the position was empty
    book,       \* Book: [yes_bid, yes_ask, no_bid, no_ask, last_update_ms]
    market,     \* Market: [end_timestamp_ms]
    now_ms,     \* the clock handed to Market::time_remaining_secs
    actions,    \* the Vec<Action> returned by the latest reconcile call
    first,      \* the Vec<Action> returned by the first reconcile call
    calls,      \* number of reconcile calls made
    rtSnap,     \* round trip: the tracker before the first open add
    rtOpen,     \* round trip: the orders added and not yet removed
    rtState,    \* round trip: [phase, fresh, returned, n]
    call,       \* the arguments of the latest call of a function or method
    result,     \* what that call returned
    updated,    \* history: the sides Book::update was called for since reset
    feedPc,     \* book feed task: where run_book_feed stands
    last_yes,   \* book feed task: last (bid, ask) seen for the YES token
    last_no,    \* book feed task: last (bid, ask) seen for the NO token
    chan,       \* the mpsc channel: events sent and not yet received
    emitted,    \* history: per side, the (bid, ask) of the last BookUpdate sent
    polyRead,   \* history: [kind, tick, quote] of the last message the book feed read
    binPc,      \* price feed task: where binance::spawn's task stands
    mainPc,     \* main: where the main function stands
    feed,       \* PolymarketFeed: [yes_token, no_token]
    gamma       \* the discovery service's answer (see Answer)

vars == <<tracker, last, position, fills, book, market, now_ms, actions,
          first, calls, rtSnap, rtOpen, rtState, call, result, updated,
          feedPc, last_yes, last_no, chan, emitted, polyRead, binPc, mainPc,
          feed, gamma>>

trackerVars == <<tracker, last>>
positionVars == <<position, fills>>
reconcileVars == <<book, market, now_ms, actions, first, calls>>
rtVars == <<rtSnap, rtOpen, rtState>>
callVars == <<call, result>>
feedVars == <<feedPc, last_yes, last_no, chan, emitted, polyRead, binPc,
              mainPc, feed, gamma>>
restVars == <<callVars, updated, feedVars>>

(***************************************************************************)
(* Bounds and input domains                                                *)
(***************************************************************************)
MaxOrders == 2          \* orders stored in the tracker (both sides together)
MaxRoundTrip == 2       \* add calls of one round trip
MaxFills == 3           \* length of a fill history
MaxCalls == 2           \* reconcile calls in one behaviour
MaxNow == 905000        \* the clock stops advancing past this (ms)
MaxChan == 1            \* events the mpsc channel holds before send waits
MaxQueue == 3           \* events queued for the consumer at the start
MaxTokens == 3          \* token ids in a discovery answer
MaxRepeat == 2          \* fills applied to the position next to a tracker

Sides == {"Yes", "No"}
None == -1
OrderIds == {"a", "b"}
TrackerPrices == {450, 440}
AddSizes == {0, 1, 2}       \* Decimal sizes handed to add (0 is accepted)
FillSizes == {0, 1, 2}      \* Decimal sizes handed to update_fill

(***************************************************************************)
(* events.rs: Side                                                         *)
(***************************************************************************)
opposite(side) == IF side = "Yes" THEN "No" ELSE "Yes"

(***************************************************************************)
(* state/orders.rs: OrderTracker                                           *)
(***************************************************************************)
StandingOrder(id, price, size) ==
    [order_id |-> id, price |-> price, remaining_size |-> size,
     original_size |-> size]

NoOrder == [order_id |-> "", price |-> 0, remaining_size |-> 0,
            original_size |-> 0]

EmptyMap == [p \in {} |-> <<>>]

OrderTrackerNew == [yes_orders |-> EmptyMap, no_orders |-> EmptyMap]

orders(t, side) == IF side = "Yes" THEN t.yes_orders ELSE t.no_orders

\* variant: the write goes to both sides
orders_mut_both(t, side, m) == [yes_orders |-> m, no_orders |-> m]

\* orders_mut: the same bucket map, written back into the tracker
orders_mut(t, side, m) ==
    IF side = "Yes" THEN [t EXCEPT !.yes_orders = m]
    ELSE [t EXCEPT !.no_orders = m]

MapRemove(m, p) == [q \in DOMAIN m \ {p} |-> m[q]]

MapPut(m, p, v) == [q \in DOMAIN m \cup {p} |-> IF q = p THEN v ELSE m[q]]

HasId(lst, id) == \E i \in 1..Len(lst) : lst[i].order_id = id

\* Iterator::position / find: the first element with the id
FirstIdx(lst, id) ==
    CHOOSE i \in 1..Len(lst) :
        /\ lst[i].order_id = id
        /\ \A j \in 1..(i - 1) : lst[j].order_id # id

\* Vec::remove(idx)
VecRemove(lst, i) == SubSeq(lst, 1, i - 1) \o SubSeq(lst, i + 1, Len(lst))

\* Vec::retain(|o| o.order_id != order_id)
RECURSIVE Retain(_, _)
Retain(lst, id) ==
    IF lst = <<>> THEN <<>>
    ELSE IF Head(lst).order_id = id THEN Retain(Tail(lst), id)
    ELSE <<Head(lst)>> \o Retain(Tail(lst), id)

\* the buckets in which the loops of remove_by_id / update_fill /
\* find_price_by_id can stop: every bucket holding the id
BucketsWithId(t, side, id) ==
    {p \in DOMAIN orders(t, side) : HasId(orders(t, side)[p], id)}

add(t, side, order_id, price, size) ==
    LET m == orders(t, side)
        lst == IF price \in DOMAIN m THEN m[price] ELSE <<>>
    IN orders_mut(t, side,
                  MapPut(m, price, Append(lst, StandingOrder(order_id, price, size))))

\* variant: the emptied price level is left in the map
remove_by_id_keeping_level(t, side, order_id, p) ==
    LET m == orders(t, side)
        idx == FirstIdx(m[p], order_id)
    IN [tracker |-> orders_mut(t, side, MapPut(m, p, VecRemove(m[p], idx))),
        ret |-> m[p][idx]]

\* remove_by_id when the iteration reaches bucket p first (p holds the id)
remove_by_id(t, side, order_id, p) ==
    LET m == orders(t, side)
        idx == FirstIdx(m[p], order_id)
        rest == VecRemove(m[p], idx)
    IN [tracker |-> orders_mut(t, side,
                       IF rest = <<>> THEN MapRemove(m, p) ELSE MapPut(m, p, rest)),
        ret |-> m[p][idx]]

remove_at_price(t, side, price) ==
    LET m == orders(t, side)
    IN [tracker |-> orders_mut(t, side, MapRemove(m, price)),
        ret |-> IF price \in DOMAIN m THEN m[price] ELSE <<>>]

\* variant: an exact fill is not seen as complete
FilledStrict(remaining) == remaining < 0

\* the test `order.remaining_size <= Decimal::ZERO`
Filled(remaining) == remaining <= 0

\* update_fill when the iteration reaches bucket p first (p holds the id)
update_fill(t, side, order_id, filled_size, p) ==
    LET m == orders(t, side)
        idx == FirstIdx(m[p], order_id)
        rem == m[p][idx].remaining_size - filled_size
        dec == [m[p] EXCEPT ![idx].remaining_size = rem]
        kept == Retain(dec, order_id)
    IN IF Filled(rem)
       THEN orders_mut(t, side,
                IF kept = <<>> THEN MapRemove(m, p) ELSE MapPut(m, p, kept))
       ELSE orders_mut(t, side, MapPut(m, p, dec))

clear(t, side) == orders_mut(t, side, EmptyMap)

clear_all(t) == [yes_orders |-> EmptyMap, no_orders |-> EmptyMap]

\* ---- queries ----
orders_at_price(t, side, price) ==
    IF price \in DOMAIN orders(t, side) THEN orders(t, side)[price] ELSE <<>>

RECURSIVE SumRemaining(_)
SumRemaining(lst) ==
    IF lst = <<>> THEN 0
    ELSE Head(lst).remaining_size + SumRemaining(Tail(lst))

\* variant: the bucket is treated as one merged order
total_size_first_only(t, side, price) ==
    IF price \in DOMAIN orders(t, side)
    THEN orders(t, side)[price][1].remaining_size
    ELSE 0

total_size_at_price(t, side, price) ==
    IF price \in DOMAIN orders(t, side)
    THEN SumRemaining(orders(t, side)[price])
    ELSE 0

prices(t, side) == DOMAIN orders(t, side)

\* all_orders flattens the buckets; a stored order is named by its slot
Slots(t, side) ==
    UNION {{<<p, i>> : i \in 1..Len(orders(t, side)[p])} : p \in DOMAIN orders(t, side)}

OrderAt(t, side, slot) == orders(t, side)[slot[1]][slot[2]]

all_orders(t, side) == {OrderAt(t, side, s) : s \in Slots(t, side)}

all_order_ids(t, side) == {OrderAt(t, side, s).order_id : s \in Slots(t, side)}

count(t, side) == Cardinality(Slots(t, side))

total_count(t) == count(t, "Yes") + count(t, "No")

total_exposure(t, side) ==
    LET RECURSIVE Sum(_)
        Sum(ps) == IF ps = {} THEN 0
                   ELSE LET p == CHOOSE q \in ps : TRUE
                        IN SumRemaining(orders(t, side)[p]) + Sum(ps \ {p})
    IN Sum(DOMAIN orders(t, side))

\* keys().max() / keys().min(): Option<u16>
top_price(t, side) ==
    IF DOMAIN orders(t, side) = {} THEN None
    ELSE CHOOSE p \in DOMAIN orders(t, side) :
            \A q \in DOMAIN orders(t, side) : q <= p

bottom_price(t, side) ==
    IF DOMAIN orders(t, side) = {} THEN None
    ELSE CHOOSE p \in DOMAIN orders(t, side) :
            \A q \in DOMAIN orders(t, side) : q >= p

has_orders(t, side) == DOMAIN orders(t, side) # {}

\* find_price_by_id: the set of values the call can return
find_price_by_id(t, side, order_id) ==
    IF BucketsWithId(t, side, order_id) = {} THEN {None}
    ELSE BucketsWithId(t, side, order_id)

(***************************************************************************)
(* state/position.rs: Position                                             *)
(***************************************************************************)
PositionDefault == [qty_yes |-> 0, qty_no |-> 0, cost_yes |-> 0, cost_no |-> 0]

\* variant: the difference is taken the other way round
net_position_reversed(pos) == pos.qty_no - pos.qty_yes

net_position(pos) == pos.qty_yes - pos.qty_no

Abs(x) == IF x < 0 THEN -x ELSE x

Min(x, y) == IF x <= y THEN x ELSE y

Max(x, y) == IF x >= y THEN x ELSE y

imbalance(pos) == Abs(pos.qty_yes - pos.qty_no)

qty(pos, side) == IF side = "Yes" THEN pos.qty_yes ELSE pos.qty_no

\* variant: the payout is taken on the larger side
min_pnl_ticks_max(pos) ==
    Max(pos.qty_yes, pos.qty_no) * 1000 - (pos.cost_yes + pos.cost_no)

min_pnl_ticks(pos) ==
    LET min_qty == Min(pos.qty_yes, pos.qty_no)
        payout == min_qty * 1000
        total_cost == pos.cost_yes + pos.cost_no
    IN payout - total_cost

\* variant: a fill sets the side's totals instead of adding to them
apply_fill_overwriting(pos, side, price_ticks, size) ==
    LET cost == price_ticks * size
    IN IF side = "Yes"
       THEN [pos EXCEPT !.qty_yes = size, !.cost_yes = cost]
       ELSE [pos EXCEPT !.qty_no = size, !.cost_no = cost]

apply_fill(pos, side, price_ticks, size) ==
    LET cost == price_ticks * size
    IN IF side = "Yes"
       THEN [pos EXCEPT !.qty_yes = @ + size, !.cost_yes = @ + cost]
       ELSE [pos EXCEPT !.qty_no = @ + size, !.cost_no = @ + cost]

position_reset(pos) == [qty_yes |-> 0, qty_no |-> 0, cost_yes |-> 0, cost_no |-> 0]

(***************************************************************************)
(* state/book.rs: Book                                                     *)
(***************************************************************************)
BookDefault == [yes_bid |-> None, yes_ask |-> None, no_bid |-> None,
                no_ask |-> None, last_update_ms |-> 0]

\* variant: one side's ask is enough
is_synced_either(b) == b.yes_ask # None \/ b.no_ask # None

is_synced(b) == b.yes_ask # None /\ b.no_ask # None

\* variant: the quote is written to both sides
book_update_both(b, side, bid, ask, timestamp_ms) ==
    [b EXCEPT !.yes_bid = bid, !.yes_ask = ask, !.no_bid = bid, !.no_ask = ask,
              !.last_update_ms = timestamp_ms]

book_update(b, side, bid, ask, timestamp_ms) ==
    IF side = "Yes"
    THEN [b EXCEPT !.yes_bid = bid, !.yes_ask = ask, !.last_update_ms = timestamp_ms]
    ELSE [b EXCEPT !.no_bid = bid, !.no_ask = ask, !.last_update_ms = timestamp_ms]

best_ask(b, side) == IF side = "Yes" THEN b.yes_ask ELSE b.no_ask

best_bid(b, side) == IF side = "Yes" THEN b.yes_bid ELSE b.no_bid

opposite_ask(b, side) == IF side = "Yes" THEN b.no_ask ELSE b.yes_ask

\* variant: the asks survive a reset
book_reset_keeping_asks(b) ==
    [b EXCEPT !.yes_bid = None, !.no_bid = None, !.last_update_ms = 0]

book_reset(b) == BookDefault

(***************************************************************************)
(* state/market.rs: Market                                                 *)
(***************************************************************************)
\* i64 division truncates toward zero
TruncDiv(x, y) == IF x >= 0 THEN x \div y ELSE -((-x) \div y)

\* variant: the result is not floored at 0
time_remaining_secs_unclamped(m, now) == TruncDiv(m.end_timestamp_ms - now, 1000)

time_remaining_secs(m, now) == Max(TruncDiv(m.end_timestamp_ms - now, 1000), 0)

(***************************************************************************)
(* strategy/pricing.rs, strategy/sizing.rs                                 *)
(***************************************************************************)
\* u16::saturating_sub
SaturatingSub(x, y) == IF x > y THEN x - y ELSE 0

\* variant: the margin is not taken off
calc_max_bid_no_margin(side, b, margin_ticks) ==
    LET ask == opposite_ask(b, side)
    IN IF ask = None THEN 0
       ELSE SaturatingSub(1000, ask)

calc_max_bid(side, b, margin_ticks) ==
    LET ask == opposite_ask(b, side)
    IN IF ask = None THEN 0
       ELSE SaturatingSub(SaturatingSub(1000, ask), margin_ticks)

\* variant: the tier boundaries belong to the upper tier
calc_size_5m_inclusive(t) ==
    IF t >= 180 THEN 12 ELSE IF t >= 120 THEN 11 ELSE IF t >= 60 THEN 9 ELSE 7

calc_size_5m(t) ==
    IF t > 180 THEN 12 ELSE IF t > 120 THEN 11 ELSE IF t > 60 THEN 9 ELSE 7

\* variant: nothing is quoted once the market has ended
calc_size_15m_expiring(t) ==
    IF t > 540 THEN 24 ELSE IF t > 360 THEN 20 ELSE IF t > 180 THEN 16
    ELSE IF t > 0 THEN 12 ELSE 0

calc_size_15m(t) ==
    IF t > 540 THEN 24 ELSE IF t > 360 THEN 20 ELSE IF t > 180 THEN 16 ELSE 12

calc_size(t, duration) ==
    IF duration = "FiveMin" THEN calc_size_5m(t) ELSE calc_size_15m(t)

\* variant: a side exactly at the limit may still place
can_place_inclusive(side, pos, max_position) ==
    LET net == net_position(pos)
        side_exposure == IF side = "Yes" THEN net ELSE -net
    IN side_exposure <= max_position

can_place(side, pos, max_position) ==
    LET net == net_position(pos)
        side_exposure == IF side = "Yes" THEN net ELSE -net
    IN side_exposure < max_position

calc_size_with_limit(side, pos, t, duration, max_position) ==
    IF ~can_place(side, pos, max_position) THEN 0 ELSE calc_size(t, duration)

(***************************************************************************)
(* strategy/mod.rs: StrategyConfig, build_ladder, check_rebalance,         *)
(* reconcile; strategy/actions.rs: Action                                  *)
(***************************************************************************)
StrategyConfigDefault ==
    [margin_ticks |-> 5, max_position |-> 150, min_order_size |-> 5,
     ladder_rungs |-> 3, rung_spacing |-> 10, duration |-> "FiveMin",
     rebalance_threshold |-> 30, max_take_size |-> 12]

Place(side, price, size) ==
    [type |-> "Place", side |-> side, price |-> price, size |-> size]

Cancel(order_id) == [type |-> "Cancel", order_id |-> order_id]

CancelAll == [type |-> "CancelAll"]

Take(side, size, max_price) ==
    [type |-> "Take", side |-> side, size |-> size, max_price |-> max_price]

\* a call either returns a value or panics (`attempt to multiply with
\* overflow` is a panic in a debug build)
Returned(v) == [panic |-> FALSE, value |-> v]
Panicked == [panic |-> TRUE, value |-> None]

\* u16 multiplication `i * config.rung_spacing` (wraps in a release build)
MulU16(x, y) == (x * y) % 65536

\* variant: the rungs climb from top_price
build_ladder_upward(top, size, config) ==
    IF top = 0 \/ size = 0 THEN [p \in {} |-> 0]
    ELSE LET rung(i) == top + MulU16(i, config.rung_spacing)
             keys == {rung(i) : i \in 0..(config.ladder_rungs - 1)}
         IN [p \in {q \in keys : q >= 100} |-> size]

\* the HashMap<u16, Decimal> built by the rung loop: price -> size
build_ladder(top, size, config) ==
    IF top = 0 \/ size = 0 THEN [p \in {} |-> 0]
    ELSE LET rung(i) == SaturatingSub(top, MulU16(i, config.rung_spacing))
             keys == {rung(i) : i \in 0..(config.ladder_rungs - 1)}
         IN [p \in {q \in keys : q >= 100} |-> size]

\* `i * config.rung_spacing` exceeds u16::MAX for some rung of the loop
rung_overflows(top, size, config) ==
    /\ ~(top = 0 \/ size = 0)
    /\ \E i \in 0..(config.ladder_rungs - 1) : i * config.rung_spacing > 65535

\* what a call of build_ladder can do: a release build wraps the product,
\* a debug build panics on it
build_ladder_outcomes(top, size, config) ==
    {Returned(build_ladder(top, size, config))}
        \cup (IF rung_overflows(top, size, config) THEN {Panicked} ELSE {})

\* the body is `None`: the rule itself is a comment in the source
check_rebalance(pos, b, config) == <<>>

\* the body is `Vec::new()`: the five arguments are unused
reconcile(b, pos, t, m, config) == <<>>

(***************************************************************************)
(* OrderTracker as a state machine: one action per public mutator.         *)
(* `last` records the call: for remove_by_id and update_fill, price is the *)
(* bucket the loop stopped in (None when the id is not stored) and ret is  *)
(* the order found there, as it was before the call.                       *)
(***************************************************************************)
Call(op, side, id, price, size, ret) ==
    [op |-> op, side |-> side, id |-> id, price |-> price, size |-> size,
     ret |-> ret]

NoCall == Call("new", "Yes", "", None, 0, NoOrder)

TrackerInit ==
    /\ tracker = OrderTrackerNew
    /\ last = NoCall

Add(side, id, price, size) ==
    /\ total_count(tracker) < MaxOrders
    /\ tracker' = add(tracker, side, id, price, size)
    /\ last' = Call("add", side, id, price, size, NoOrder)

RemoveById(side, id) ==
    IF BucketsWithId(tracker, side, id) = {}
    THEN /\ tracker' = tracker
         /\ last' = Call("remove_by_id", side, id, None, 0, NoOrder)
    ELSE \E p \in BucketsWithId(tracker, side, id) :
            /\ tracker' = remove_by_id(tracker, side, id, p).tracker
            /\ last' = Call("remove_by_id", side, id, p, 0,
                            remove_by_id(tracker, side, id, p).ret)

RemoveAtPrice(side, price) ==
    /\ tracker' = remove_at_price(tracker, side, price).tracker
    /\ last' = Call("remove_at_price", side, "", price, 0, NoOrder)

UpdateFill(side, id, filled_size) ==
    IF BucketsWithId(tracker, side, id) = {}
    THEN /\ tracker' = tracker
         /\ last' = Call("update_fill", side, id, None, filled_size, NoOrder)
    ELSE \E p \in BucketsWithId(tracker, side, id) :
            /\ tracker' = update_fill(tracker, side, id, filled_size, p)
            /\ last' = Call("update_fill", side, id, p, filled_size,
                            orders(tracker, side)[p][FirstIdx(orders(tracker, side)[p], id)])

Clear(side) ==
    /\ tracker' = clear(tracker, side)
    /\ last' = Call("clear", side, "", None, 0, NoOrder)

ClearAll ==
    /\ tracker' = clear_all(tracker)
    /\ last' = Call("clear_all", "Yes", "", None, 0, NoOrder)

TrackerAdd ==
    /\ \E side \in Sides, id \in OrderIds, price \in TrackerPrices, size \in AddSizes :
          Add(side, id, price, size)
    /\ UNCHANGED <<positionVars, reconcileVars, rtVars, restVars>>

TrackerRemoveById ==
    /\ \E side \in Sides, id \in OrderIds : RemoveById(side, id)
    /\ UNCHANGED <<positionVars, reconcileVars, rtVars, restVars>>

TrackerRemoveAtPrice ==
    /\ \E side \in Sides, price \in TrackerPrices : RemoveAtPrice(side, price)
    /\ UNCHANGED <<positionVars, reconcileVars, rtVars, restVars>>

TrackerUpdateFill ==
    /\ \E side \in Sides, id \in OrderIds, f \in FillSizes : UpdateFill(side, id, f)
    /\ UNCHANGED <<positionVars, reconcileVars, rtVars, restVars>>

TrackerClear ==
    /\ \E side \in Sides : Clear(side)
    /\ UNCHANGED <<positionVars, reconcileVars, rtVars, restVars>>

TrackerClearAll ==
    /\ ClearAll
    /\ UNCHANGED <<positionVars, reconcileVars, rtVars, restVars>>

(***************************************************************************)
(* Position as a state machine; `fills` is the history of apply_fill calls *)
(***************************************************************************)
FillPrices == {450, 520}
PositionSizes == {-10, 0, 10, 20}   \* Decimal sizes handed to apply_fill (signed)

PositionInit ==
    /\ position = PositionDefault
    /\ fills = <<>>

ApplyFill ==
    /\ Len(fills) < MaxFills
    /\ \E side \in Sides, price \in FillPrices, size \in PositionSizes :
          /\ position' = apply_fill(position, side, price, size)
          /\ fills' = Append(fills, [side |-> side, price |-> price, size |-> size])
    /\ UNCHANGED <<trackerVars, reconcileVars, rtVars, restVars>>

PositionReset ==
    /\ position' = position_reset(position)
    /\ fills' = <<>>
    /\ UNCHANGED <<trackerVars, reconcileVars, rtVars, restVars>>

(***************************************************************************)
(* reconcile as a state machine: the inputs are drawn by the initial       *)
(* state, each step is one call                                            *)
(***************************************************************************)
ReconcileInit0 ==
    /\ book = BookDefault
    /\ market = [end_timestamp_ms |-> 300000]
    /\ now_ms = 0
    /\ actions = <<>>
    /\ first = <<>>
    /\ calls = 0

RoundTripInit0 ==
    /\ rtSnap = OrderTrackerNew
    /\ rtOpen = {}
    /\ rtState = [phase |-> "idle", fresh |-> TRUE, returned |-> TRUE, n |-> 0]

NoApplication == [f |-> "none"]

CallInit0 ==
    /\ call = NoApplication
    /\ result = Returned(None)

\* what the discovery request meets.  sent: the request got a response;
\* status: its HTTP status; json: the body deserializes into Market;
\* ids_json: clobTokenIds parses as a JSON array of strings (token_ids)
Answer(sent, status, json, ids_json, token_ids) ==
    [sent |-> sent, status |-> status, json |-> json, ids_json |-> ids_json,
     token_ids |-> token_ids]

\* the state right after main has spawned both feeds (main.rs:29-37) on a
\* market with two token ids
FeedInit0 ==
    /\ feedPc = "connect"
    /\ last_yes = <<0, 0>>
    /\ last_no = <<0, 0>>
    /\ chan = <<>>
    /\ emitted = [side \in Sides |-> <<None, None>>]
    /\ polyRead = [kind |-> "none", tick |-> FALSE, quote |-> <<>>]
    /\ binPc = "connect"
    /\ mainPc = "recv"
    /\ feed = [yes_token |-> "yes_token", no_token |-> "no_token"]
    /\ gamma = Answer(TRUE, 200, TRUE, TRUE, <<"yes_token", "no_token">>)

RestInit0 ==
    /\ CallInit0
    /\ updated = {}
    /\ FeedInit0

\* variant: the call withdraws the resting orders itself
ReconcileClearing ==
    /\ calls < MaxCalls
    /\ actions' = reconcile(book, position, tracker, market, StrategyConfigDefault)
    /\ first' = IF calls = 0 THEN actions' ELSE first
    /\ calls' = calls + 1
    /\ tracker' = clear_all(tracker)
    /\ UNCHANGED <<last, positionVars, book, market, now_ms, rtVars, restVars>>

\* the arguments are shared borrows: nothing but the result is written
Reconcile ==
    /\ calls < MaxCalls
    /\ actions' = reconcile(book, position, tracker, market, StrategyConfigDefault)
    /\ first' = IF calls = 0 THEN actions' ELSE first
    /\ calls' = calls + 1
    /\ UNCHANGED <<trackerVars, positionVars, book, market, now_ms, rtVars, restVars>>

(***************************************************************************)
(* add / remove_by_id round trips: starting from a tracker built by add    *)
(* and update_fill, a round is a set of add calls with pairwise distinct   *)
(* (side, id), each later answered by remove_by_id(side, id), in any       *)
(* interleaving.  rtState.fresh: no id of the round was stored on its side *)
(* when it was added.  rtState.returned: every remove_by_id of the round   *)
(* has returned the order its add stored.  rtState.n: adds of the round.   *)
(***************************************************************************)
RTAdd ==
    /\ rtState.phase # "closed"
    /\ rtState.n < MaxRoundTrip
    /\ \E side \in Sides, id \in OrderIds, price \in TrackerPrices, size \in AddSizes :
          /\ ~\E o \in rtOpen : o.side = side /\ o.id = id
          /\ tracker' = add(tracker, side, id, price, size)
          /\ last' = Call("add", side, id, price, size, NoOrder)
          /\ rtSnap' = IF rtState.phase = "idle" THEN tracker ELSE rtSnap
          /\ rtOpen' = rtOpen \cup
                 {[side |-> side, id |-> id, order |-> StandingOrder(id, price, size)]}
          /\ rtState' =
                 [phase |-> "open",
                  fresh |-> rtState.fresh /\ id \notin all_order_ids(tracker, side),
                  returned |-> rtState.returned,
                  n |-> rtState.n + 1]
    /\ UNCHANGED <<positionVars, reconcileVars, restVars>>

RTRemove ==
    /\ \E o \in rtOpen :
          /\ RemoveById(o.side, o.id)
          /\ rtOpen' = rtOpen \ {o}
          /\ rtState' =
                 [rtState EXCEPT
                    !.phase = IF rtOpen \ {o} = {} THEN "closed" ELSE "open",
                    !.returned = @ /\ last'.ret = o.order]
    /\ UNCHANGED <<positionVars, reconcileVars, rtSnap, restVars>>

(***************************************************************************)
(* Specifications                                                          *)
(***************************************************************************)
Init ==
    /\ TrackerInit
    /\ PositionInit
    /\ ReconcileInit0
    /\ RoundTripInit0
    /\ RestInit0

Next ==
    \/ TrackerAdd
    \/ TrackerRemoveById
    \/ TrackerRemoveAtPrice
    \/ TrackerUpdateFill
    \/ TrackerClear
    \/ TrackerClearAll

\* the OrderTracker under every sequence of its mutators
Spec == Init /\ [][Next]_vars

NextPosition ==
    \/ ApplyFill
    \/ PositionReset

\* the Position under every sequence of fills and resets
SpecPosition == Init /\ [][NextPosition]_vars

\* trackers built by at most two add calls and one update_fill
RoundTripOne ==
    {add(OrderTrackerNew, side, id, price, 2) :
        side \in Sides, id \in OrderIds, price \in TrackerPrices}

RoundTripTrackers ==
    {OrderTrackerNew} \cup RoundTripOne
    \cup {update_fill(add(OrderTrackerNew, "Yes", id, price, 2), "Yes", id, 1, price) :
            id \in OrderIds, price \in TrackerPrices}
    \cup {add(t, "Yes", id, price, 1) :
            t \in RoundTripOne, id \in OrderIds, price \in TrackerPrices}

InitRoundTrip ==
    /\ tracker \in RoundTripTrackers
    /\ last = NoCall
    /\ PositionInit
    /\ ReconcileInit0
    /\ RoundTripInit0
    /\ RestInit0

NextRoundTrip ==
    \/ RTAdd
    \/ RTRemove

\* add / remove_by_id round trips on the drawn trackers
SpecRoundTrip == InitRoundTrip /\ [][NextRoundTrip]_vars

\* inputs of reconcile: books written by Book::update, positions built by
\* apply_fill, trackers built by add
ReconcileAsks == {None, 490, 515, 700}

ReconcileBooks ==
    {[yes_bid |-> IF ya = None THEN None ELSE ya - 10, yes_ask |-> ya,
      no_bid |-> IF na = None THEN None ELSE na - 10, no_ask |-> na,
      last_update_ms |-> 0] : ya \in ReconcileAsks, na \in ReconcileAsks}

ReconcileQtys == {0, 12, 60, 180}

ReconcilePositions ==
    {apply_fill(apply_fill(PositionDefault, "Yes", 500, qy), "No", 500, qn) :
        qy \in ReconcileQtys, qn \in ReconcileQtys}

ScenarioD == add(add(OrderTrackerNew, "Yes", "a", 480, 12), "Yes", "b", 490, 5)

ReconcileTrackers ==
    {OrderTrackerNew,
     ScenarioD,
     add(ScenarioD, "No", "c", 300, 12),
     add(add(OrderTrackerNew, "Yes", "a", 480, 7), "No", "b", 490, 9)}

InitReconcile ==
    /\ tracker \in ReconcileTrackers
    /\ last = NoCall
    /\ position \in ReconcilePositions
    /\ fills = <<>>
    /\ book \in ReconcileBooks
    /\ market = [end_timestamp_ms |-> 300000]
    /\ now_ms \in {100000, 250000}
    /\ actions = <<>>
    /\ first = <<>>
    /\ calls = 0
    /\ RoundTripInit0
    /\ RestInit0

NextReconcile == Reconcile

\* reconcile called on every drawn input
SpecReconcile == InitReconcile /\ [][NextReconcile]_vars

(***************************************************************************)
(* Properties of reconcile (checked under SpecReconcile)                   *)
(***************************************************************************)
\* the ideal ladder of a side in the current state, as steps 1-3 of the
\* documented flow build it
Ideal(side) ==
    build_ladder(
        calc_max_bid(side, book, StrategyConfigDefault.margin_ticks),
        calc_size_with_limit(side, position, time_remaining_secs(market, now_ms),
                             StrategyConfigDefault.duration,
                             StrategyConfigDefault.max_position),
        StrategyConfigDefault)

Occurrences(a) == {k \in 1..Len(actions) : actions[k] = a}

ActionsOfType(type) == {k \in 1..Len(actions) : actions[k].type = type}

\* C1: after a reconcile call, every order resting at a price of a side that
\* is not a rung of the side's ideal ladder has a Cancel in the returned list.
C1_CancelsStaleRungs ==
    calls > 0 =>
        \A side \in Sides :
            \A p \in prices(tracker, side) \ DOMAIN Ideal(side) :
                \A i \in 1..Len(orders_at_price(tracker, side, p)) :
                    Occurrences(Cancel(orders_at_price(tracker, side, p)[i].order_id)) # {}

\* C2: after a reconcile call, for every rung p of a side's ideal ladder,
\* exactly one Place(side, p, ideal_size - resting) is in the list iff
\* ideal_size - resting >= min_order_size, and no order resting at a rung
\* price is cancelled.
C2_TopsUpShortRungs ==
    calls > 0 =>
        \A side \in Sides :
            \A p \in DOMAIN Ideal(side) :
                LET diff == Ideal(side)[p] - total_size_at_price(tracker, side, p)
                IN /\ (diff >= StrategyConfigDefault.min_order_size)
                        <=> (Cardinality(Occurrences(Place(side, p, diff))) = 1)
                   /\ \A i \in 1..Len(orders_at_price(tracker, side, p)) :
                        Occurrences(Cancel(orders_at_price(tracker, side, p)[i].order_id)) = {}

\* the side with the smaller quantity
Lighter == IF position.qty_yes < position.qty_no THEN "Yes" ELSE "No"

\* C3: after a reconcile call, if imbalance > rebalance_threshold and the
\* lighter side's best ask is present and <= 600, the list holds exactly one
\* Take(lighter, min(imbalance / 3, max_take_size), ask); otherwise no Take.
\* (The drawn quantities make imbalance a multiple of 3.)
C3_RebalanceRule ==
    calls > 0 =>
        LET ask == best_ask(book, Lighter)
            take_size == Min(imbalance(position) \div 3,
                             StrategyConfigDefault.max_take_size)
        IN IF /\ imbalance(position) > StrategyConfigDefault.rebalance_threshold
              /\ ask # None
              /\ ask <= 600
           THEN /\ Cardinality(ActionsOfType("Take")) = 1
                /\ Occurrences(Take(Lighter, take_size, ask)) # {}
           ELSE ActionsOfType("Take") = {}

C6_TrackerInvariant ==
    \A side \in Sides :
        \A p \in DOMAIN orders(tracker, side) :
            /\ orders(tracker, side)[p] # <<>>
            /\ \A i \in 1..Len(orders(tracker, side)[p]) :
                  orders(tracker, side)[p][i].remaining_size > 0

\* no query of a side shows an order with the id
Absent(t, side, id) ==
    /\ id \notin all_order_ids(t, side)
    /\ \A o \in all_orders(t, side) : o.order_id # id
    /\ find_price_by_id(t, side, id) = {None}
    /\ \A p \in TrackerPrices : ~HasId(orders_at_price(t, side, p), id)

\* the order update_fill found is no longer counted by the aggregate queries
NotCounted(t, u, side, p, old) ==
    /\ count(u, side) <= count(t, side) - 1
    /\ total_size_at_price(u, side, p) <= total_size_at_price(t, side, p) - old
    /\ total_exposure(u, side) <= total_exposure(t, side) - old

\* the order update_fill found is still stored in its slot
StoredAt(u, side, p, idx, id) ==
    /\ Len(orders_at_price(u, side, p)) >= idx
    /\ orders_at_price(u, side, p)[idx].order_id = id

\* an id that no query shows stays absent unless it is added
StaysAbsent(side, id) ==
    (Absent(tracker, side, id)
        /\ ~(last'.op = "add" /\ last'.side = side /\ last'.id = id))
    => Absent(tracker', side, id)

\* the tracker holds only orders with remaining_size > 0 and the id is stored
\* exactly once on the side
PlainCase(side, id) ==
    /\ \A sd \in Sides : \A o \in all_orders(tracker, sd) : o.remaining_size > 0
    /\ Cardinality({sl \in Slots(tracker, side) :
                        OrderAt(tracker, side, sl).order_id = id}) = 1

\* C7 (as stated): every update_fill on a stored order strictly decreases its
\* remaining_size; once that has reached <= 0 no query shows the id until an
\* order with that id is added again.  Stated for the plain case only: all
\* stored sizes positive, the id stored once.
C7_FillDecreasesThenAbsent ==
    [][\A side \in Sides, id \in OrderIds :
          /\ (last'.op = "update_fill" /\ last'.side = side /\ last'.id = id
                  /\ last'.price # None /\ PlainCase(side, id))
              => LET p == last'.price
                     idx == FirstIdx(orders(tracker, side)[p], id)
                     old == orders(tracker, side)[p][idx].remaining_size
                 IN IF old - last'.size <= 0
                    THEN Absent(tracker', side, id)
                    ELSE /\ StoredAt(tracker', side, p, idx, id)
                         /\ orders_at_price(tracker', side, p)[idx].remaining_size < old
          /\ StaysAbsent(side, id)
      ]_vars

\* C7 (amended): update_fill with filled_size > 0 on a stored order either
\* leaves it stored with remaining_size smaller by filled_size (> 0), or, when
\* that difference is <= 0, removes it: the aggregate queries no longer count
\* it and, if the id is stored at no other price of the side, no query shows
\* the id until an order with that id is added again.
C7_PositiveFillDecreasesThenAbsent ==
    [][\A side \in Sides, id \in OrderIds :
          /\ (last'.op = "update_fill" /\ last'.side = side /\ last'.id = id
                  /\ last'.price # None /\ last'.size > 0)
              => LET p == last'.price
                     idx == FirstIdx(orders(tracker, side)[p], id)
                     old == orders(tracker, side)[p][idx].remaining_size
                 IN IF old - last'.size <= 0
                    THEN /\ NotCounted(tracker, tracker', side, p, old)
                         /\ ~HasId(orders_at_price(tracker', side, p), id)
                         /\ BucketsWithId(tracker, side, id) = {p}
                                => Absent(tracker', side, id)
                    ELSE /\ StoredAt(tracker', side, p, idx, id)
                         /\ orders_at_price(tracker', side, p)[idx].remaining_size
                                = old - last'.size
                         /\ orders_at_price(tracker', side, p)[idx].remaining_size < old
          /\ StaysAbsent(side, id)
      ]_vars

\* C7 witness: an over-fill (filled_size greater than the remaining size) has
\* removed the order while another order stays at its price.
C7_Witness ==
    /\ last.op = "update_fill"
    /\ last.price # None
    /\ last.ret.remaining_size > 0
    /\ last.size > last.ret.remaining_size
    /\ Absent(tracker, last.side, last.id)
    /\ orders_at_price(tracker, last.side, last.price) # <<>>

\* the remaining sizes of the orders stored at (side, p), added slot by slot
RECURSIVE SlotSum(_, _, _)
SlotSum(t, side, slots) ==
    IF slots = {} THEN 0
    ELSE LET sl == CHOOSE x \in slots : TRUE
         IN OrderAt(t, side, sl).remaining_size + SlotSum(t, side, slots \ {sl})

\* C8: total_size_at_price(side, p) is the sum of remaining_size over the
\* orders stored at (side, p), 0 when none; an add stores its order as one more
\* element of the bucket, with its own id and sizes (no merge).
C8_TotalSizeIsSum ==
    /\ \A side \in Sides, p \in TrackerPrices :
          total_size_at_price(tracker, side, p)
            = SlotSum(tracker, side, {sl \in Slots(tracker, side) : sl[1] = p})
    /\ last.op = "add" =>
          LET lst == orders_at_price(tracker, last.side, last.price)
          IN /\ lst # <<>>
             /\ lst[Len(lst)] = StandingOrder(last.id, last.price, last.size)

\* C8 witness: two orders stacked at one price, the first partially filled,
\* so that the total (3) differs from each order's size.
C8_Witness ==
    \E side \in Sides, p \in TrackerPrices :
        LET lst == orders_at_price(tracker, side, p)
        IN /\ Len(lst) = 2
           /\ lst[1].remaining_size = 1 /\ lst[1].original_size = 2
           /\ lst[2].remaining_size = 2
           /\ total_size_at_price(tracker, side, p) = 3

(***************************************************************************)
(* Round trip (checked under SpecRoundTrip)                                *)
(***************************************************************************)
\* C9 (as stated): when every add of a round has been answered by its
\* remove_by_id, each remove_by_id has returned the order its add stored and
\* the tracker equals its state before the round.
C9_RoundTrip ==
    rtState.phase = "closed" => (rtState.returned /\ tracker = rtSnap)

\* C9 (amended): the same, for rounds in which no added id was already
\* stored on its side when it was added.
C9_RoundTripFreshIds ==
    (rtState.phase = "closed" /\ rtState.fresh)
        => (rtState.returned /\ tracker = rtSnap)

\* C9 witness: a round of two interleaved add/remove pairs with fresh ids has
\* closed on a tracker that held other orders.
C9_Witness ==
    /\ rtState.phase = "closed"
    /\ rtState.fresh
    /\ rtState.n = 2
    /\ total_count(rtSnap) > 0
    /\ tracker = rtSnap

(***************************************************************************)
(* Properties of Position (checked under SpecPosition)                     *)
(***************************************************************************)
RECURSIVE FilledSize(_, _)
FilledSize(hist, side) ==
    IF hist = <<>> THEN 0
    ELSE (IF Head(hist).side = side THEN Head(hist).size ELSE 0)
         + FilledSize(Tail(hist), side)

RECURSIVE FilledCost(_, _)
FilledCost(hist, side) ==
    IF hist = <<>> THEN 0
    ELSE (IF Head(hist).side = side THEN Head(hist).price * Head(hist).size ELSE 0)
         + FilledCost(Tail(hist), side)

\* C10: min_pnl_ticks equals min(YES size filled, NO size filled) * 1000 minus
\* the sum of price * size over all fills, and each side's stored cost equals
\* the sum of price * size over that side's fills.
C10_MinPnlFromFills ==
    /\ min_pnl_ticks(position)
         = Min(FilledSize(fills, "Yes"), FilledSize(fills, "No")) * 1000
           - (FilledCost(fills, "Yes") + FilledCost(fills, "No"))
    /\ position.cost_yes = FilledCost(fills, "Yes")
    /\ position.cost_no = FilledCost(fills, "No")

\* C10 witness: 20 YES at 450 and 10 NO at 520 give -4200.
C10_Witness ==
    /\ position = [qty_yes |-> 20, qty_no |-> 10, cost_yes |-> 9000, cost_no |-> 5200]
    /\ min_pnl_ticks(position) = -4200

(***************************************************************************)
(* C11: apply_fill(side, price, size) adds exactly size to that side's     *)
(* quantity and price * size to that side's cost and leaves the other side *)
(* unchanged; so across any sequence of fills each side's quantity and     *)
(* cost never decrease and each quantity stays >= 0 until reset.           *)
(***************************************************************************)
cost(pos, side) == IF side = "Yes" THEN pos.cost_yes ELSE pos.cost_no

C11_FillsOnlyAdd ==
    [][fills' # fills /\ fills' # <<>> =>
         LET f == fills'[Len(fills')]
         IN  /\ qty(position', f.side) = qty(position, f.side) + f.size
             /\ cost(position', f.side) =
                    cost(position, f.side) + f.price * f.size
             /\ qty(position', opposite(f.side)) = qty(position, opposite(f.side))
             /\ cost(position', opposite(f.side)) = cost(position, opposite(f.side))
             /\ \A s \in Sides :
                    /\ qty(position', s) >= qty(position, s)
                    /\ cost(position', s) >= cost(position, s)
                    /\ qty(position', s) >= 0]_vars

(***************************************************************************)
(* Pricing and ladder as a state machine: the book is drawn by the initial *)
(* state, each behaviour is one call of calc_max_bid or of build_ladder,   *)
(* or the two chained (the ladder of a side is built from its max bid).    *)
(***************************************************************************)
QuoteAsks == {None, 0, 490, 515, 1000, 65535}
QuoteBooks ==
    {[BookDefault EXCEPT !.yes_ask = ya, !.no_ask = na] :
        ya \in QuoteAsks, na \in QuoteAsks}
QuoteMargins == {0, 5, 10, 485, 1000, 65535}
LadderTops == {0, 99, 100, 120, 480, 1000}
LadderSizes == {0, 12}
LadderRungs == {0, 1, 3, 5}
LadderSpacings == {0, 10, 32773}
LadderConfigs ==
    {[StrategyConfigDefault EXCEPT !.ladder_rungs = r, !.rung_spacing = sp] :
        r \in LadderRungs, sp \in LadderSpacings}

InitQuote ==
    /\ TrackerInit
    /\ PositionInit
    /\ book \in QuoteBooks
    /\ market = [end_timestamp_ms |-> 300000]
    /\ now_ms = 0
    /\ actions = <<>>
    /\ first = <<>>
    /\ calls = 0
    /\ RoundTripInit0
    /\ RestInit0

CalcMaxBid ==
    /\ call = NoApplication
    /\ \E side \in Sides, margin_ticks \in QuoteMargins :
          /\ call' = [f |-> "calc_max_bid", side |-> side,
                       margin_ticks |-> margin_ticks]
          /\ result' = Returned(calc_max_bid(side, book, margin_ticks))
    /\ UNCHANGED <<trackerVars, positionVars, reconcileVars, rtVars,
                   updated, feedVars>>

BuildLadder ==
    /\ call = NoApplication
    /\ \E top \in LadderTops, size \in LadderSizes,
          config \in LadderConfigs :
          /\ call' = [f |-> "build_ladder", top_price |-> top,
                       size |-> size, config |-> config]
          /\ result' \in build_ladder_outcomes(top, size, config)
    /\ UNCHANGED <<trackerVars, positionVars, reconcileVars, rtVars,
                   updated, feedVars>>

LadderOfMaxBid ==
    /\ call = NoApplication
    /\ \E side \in Sides, margin_ticks \in QuoteMargins,
          size \in LadderSizes, config \in LadderConfigs :
          /\ call' = [f |-> "ladder_of_max_bid", side |-> side,
                       margin_ticks |-> margin_ticks, size |-> size,
                       config |-> config]
          /\ result' \in build_ladder_outcomes(
                             calc_max_bid(side, book, margin_ticks), size, config)
    /\ UNCHANGED <<trackerVars, positionVars, reconcileVars, rtVars,
                   updated, feedVars>>

NextQuote ==
    \/ CalcMaxBid
    \/ BuildLadder
    \/ LadderOfMaxBid

SpecQuote == InitQuote /\ [][NextQuote]_vars

(***************************************************************************)
(* C12: calc_max_bid returns 0 when the opposite side's ask is absent and  *)
(* otherwise clamp(1000 - opposite_ask - margin, 0, 1000), for every book  *)
(* and margin; the result is always within [0, 1000].                      *)
(***************************************************************************)
Clamp(x, lo, hi) == IF x < lo THEN lo ELSE IF x > hi THEN hi ELSE x

AskOpposite(side) == IF side = "Yes" THEN book.no_ask ELSE book.yes_ask

C12_MaxBidClamped ==
    call.f = "calc_max_bid" =>
        /\ ~result.panic
        /\ result.value \in 0..1000
        /\ result.value =
              IF AskOpposite(call.side) = None THEN 0
              ELSE Clamp(1000 - AskOpposite(call.side) - call.margin_ticks,
                         0, 1000)

\* both branches are taken: an absent ask, a clamped and an unclamped result
C12_Witness ==
    /\ call.f = "calc_max_bid"
    /\ call.side = "Yes"
    /\ call.margin_ticks = 5
    /\ book.no_ask = 515
    /\ result.value = 480

(***************************************************************************)
(* C13: every rung price p of the ladder built from                        *)
(* top_price = calc_max_bid(side, book, margin) satisfies                  *)
(* p + opposite_ask(side) <= 1000 - margin, and no rung is quoted for a    *)
(* side whose opposite ask is absent.                                      *)
(***************************************************************************)
C13_MarginGuarantee ==
    call.f = "ladder_of_max_bid" /\ ~result.panic =>
        /\ AskOpposite(call.side) = None => DOMAIN result.value = {}
        /\ \A p \in DOMAIN result.value :
              p + AskOpposite(call.side) <= 1000 - call.margin_ticks

\* a ladder of three rungs whose top rung meets the margin exactly
C13_Witness ==
    /\ call.f = "ladder_of_max_bid"
    /\ ~result.panic
    /\ call.margin_ticks = 5
    /\ AskOpposite(call.side) = 515
    /\ DOMAIN result.value = {480, 470, 460}

(***************************************************************************)
(* C14: build_ladder(top_price, size, rungs, spacing) returns exactly the  *)
(* mapping whose keys are the prices top_price - i * spacing, i in         *)
(* 0..rungs-1, that are >= 100, each mapped to size; it is empty when      *)
(* top_price = 0 or size = 0.                                              *)
(***************************************************************************)
LadderKeys(top, rungs, spacing) ==
    {q \in {top - i * spacing : i \in 0..(rungs - 1)} : q >= 100}

C14_LadderExact ==
    call.f = "build_ladder" =>
        /\ ~result.panic
        /\ result.value =
              IF call.top_price = 0 \/ call.size = 0 THEN [p \in {} |-> 0]
              ELSE [p \in LadderKeys(call.top_price, call.config.ladder_rungs,
                                     call.config.rung_spacing) |-> call.size]

(***************************************************************************)
(* Sizing as a state machine: the position is drawn by the initial state,  *)
(* each behaviour is one call of calc_size, can_place or                   *)
(* calc_size_with_limit.                                                   *)
(***************************************************************************)
SizingTimes == -5..605
LimitTimes == {0, 60, 61, 181, 541}
Durations == {"FiveMin", "FifteenMin"}
SizingQtys == {0, 50, 149, 150, 151}
SizingPositions ==
    {apply_fill(apply_fill(PositionDefault, "Yes", 500, qy), "No", 500, qn) :
        qy \in SizingQtys, qn \in SizingQtys}
MaxPositions == {0, 50, 150}

InitSizing ==
    /\ TrackerInit
    /\ position \in SizingPositions
    /\ fills = <<>>
    /\ ReconcileInit0
    /\ RoundTripInit0
    /\ RestInit0

CalcSize ==
    /\ call = NoApplication
    /\ \E t \in SizingTimes, duration \in Durations :
          /\ call' = [f |-> "calc_size", time_remaining_secs |-> t,
                       duration |-> duration]
          /\ result' = Returned(calc_size(t, duration))
    /\ UNCHANGED <<trackerVars, positionVars, reconcileVars, rtVars,
                   updated, feedVars>>

CanPlace ==
    /\ call = NoApplication
    /\ \E side \in Sides, max_position \in MaxPositions :
          /\ call' = [f |-> "can_place", side |-> side,
                       max_position |-> max_position]
          /\ result' = Returned(can_place(side, position, max_position))
    /\ UNCHANGED <<trackerVars, positionVars, reconcileVars, rtVars,
                   updated, feedVars>>

CalcSizeWithLimit ==
    /\ call = NoApplication
    /\ \E side \in Sides, t \in LimitTimes, duration \in Durations,
          max_position \in MaxPositions :
          /\ call' = [f |-> "calc_size_with_limit", side |-> side,
                       time_remaining_secs |-> t, duration |-> duration,
                       max_position |-> max_position]
          /\ result' = Returned(calc_size_with_limit(side, position, t,
                                                     duration, max_position))
    /\ UNCHANGED <<trackerVars, positionVars, reconcileVars, rtVars,
                   updated, feedVars>>

NextSizing ==
    \/ CalcSize
    \/ CanPlace
    \/ CalcSizeWithLimit

SpecSizing == InitSizing /\ [][NextSizing]_vars

(***************************************************************************)
(* The clock: now_ms only advances; the market's end is drawn by the       *)
(* initial state.                                                          *)
(***************************************************************************)
ClockStarts == {0, 137}
ClockSteps == {250, 1000, 45000}
MarketEnds == {300000, 900000}

InitClock ==
    /\ TrackerInit
    /\ PositionInit
    /\ book = BookDefault
    /\ market \in {[end_timestamp_ms |-> e] : e \in MarketEnds}
    /\ now_ms \in ClockStarts
    /\ actions = <<>>
    /\ first = <<>>
    /\ calls = 0
    /\ RoundTripInit0
    /\ RestInit0

ClockAdvance ==
    /\ \E d \in ClockSteps :
          /\ now_ms + d <= MaxNow
          /\ now_ms' = now_ms + d
    /\ UNCHANGED <<trackerVars, positionVars, book, market, actions, first,
                   calls, rtVars, restVars>>

NextClock == ClockAdvance

SpecClock == InitClock /\ [][NextClock]_vars

(***************************************************************************)
(* C15: calc_size tier boundaries are exact for every integer number of    *)
(* seconds t.  5-minute markets: t > 180 -> 12, 120 < t <= 180 -> 11,      *)
(* 60 < t <= 120 -> 9, t <= 60 -> 7.  15-minute markets: t > 540 -> 24,    *)
(* 360 < t <= 540 -> 20, 180 < t <= 360 -> 16, t <= 180 -> 12.             *)
(***************************************************************************)
Tier5m(t) ==
    CASE t > 180 -> 12
      [] 120 < t /\ t <= 180 -> 11
      [] 60 < t /\ t <= 120 -> 9
      [] t <= 60 -> 7

Tier15m(t) ==
    CASE t > 540 -> 24
      [] 360 < t /\ t <= 540 -> 20
      [] 180 < t /\ t <= 360 -> 16
      [] t <= 180 -> 12

C16_SizeNeverGrows ==
    [][now_ms' > now_ms =>
         LET before == time_remaining_secs(market, now_ms)
             after == time_remaining_secs(market', now_ms')
         IN  /\ after <= before
             /\ after >= 0
             /\ before >= 0
             /\ \A duration \in Durations :
                    calc_size(after, duration) <= calc_size(before, duration)]_vars

\* the clock has run past the end of the market: nothing is left and the
\* size is at its lowest tier
C16_Witness ==
    /\ now_ms > market.end_timestamp_ms + 1000
    /\ time_remaining_secs(market, now_ms) = 0
    /\ calc_size(time_remaining_secs(market, now_ms), "FiveMin") = 7

(***************************************************************************)
(* C17: can_place(side, position, max_position) is true iff the side's     *)
(* signed exposure (net for YES, -net for NO) is strictly below            *)
(* max_position; calc_size_with_limit returns 0 exactly when can_place is  *)
(* false and calc_size(time_remaining, duration) otherwise.                *)
(***************************************************************************)
Exposure(side) ==
    IF side = "Yes" THEN position.qty_yes - position.qty_no
    ELSE position.qty_no - position.qty_yes

C17_PositionLimit ==
    /\ call.f = "can_place" =>
          (result.value <=> Exposure(call.side) < call.max_position)
    /\ call.f = "calc_size_with_limit" =>
          /\ (result.value = 0 <=> ~(Exposure(call.side) < call.max_position))
          /\ Exposure(call.side) < call.max_position =>
                result.value = calc_size(call.time_remaining_secs, call.duration)

\* a side exactly at the limit gets size 0
C17_Witness ==
    /\ call.f = "calc_size_with_limit"
    /\ call.max_position = 150
    /\ Exposure(call.side) = 150
    /\ result.value = 0

(***************************************************************************)
(* Book as a state machine: update and reset; `updated` is the history of  *)
(* the sides update was called for since the book was new or reset.        *)
(***************************************************************************)
BookTicks == {0, 480, 1000}        \* u16 prices handed to update
BookTimes == {1, 2}                \* i64 timestamps handed to update

BookUpdate ==
    /\ \E side \in Sides, bid \in BookTicks, ask \in BookTicks,
          timestamp_ms \in BookTimes :
          /\ book' = book_update(book, side, bid, ask, timestamp_ms)
          /\ call' = [f |-> "update", side |-> side, bid |-> bid, ask |-> ask,
                       timestamp_ms |-> timestamp_ms]
          /\ updated' = updated \cup {side}
    /\ result' = Returned(None)
    /\ UNCHANGED <<trackerVars, positionVars, market, now_ms, actions, first,
                   calls, rtVars, feedVars>>

BookReset ==
    /\ book' = book_reset(book)
    /\ call' = [f |-> "reset"]
    /\ updated' = {}
    /\ result' = Returned(None)
    /\ UNCHANGED <<trackerVars, positionVars, market, now_ms, actions, first,
                   calls, rtVars, feedVars>>

NextBook ==
    \/ BookUpdate
    \/ BookReset

SpecBook == Init /\ [][NextBook]_vars

(***************************************************************************)
(* C18: in every state reachable by update and reset, is_synced() is true  *)
(* iff both the YES ask and the NO ask are present; a default or reset     *)
(* book is not synced and a book updated on only one side is not synced.   *)
(***************************************************************************)
C18_SyncedIffBothAsks ==
    /\ is_synced(book) <=> (best_ask(book, "Yes") # None /\ best_ask(book, "No") # None)
    /\ updated # Sides => ~is_synced(book)
    /\ \A side \in Sides : best_ask(book, side) # None <=> side \in updated

\* updated on one side only
C18_Witness ==
    /\ call.f = "update"
    /\ updated = {"Yes"}
    /\ book.yes_ask = 480
    /\ ~is_synced(book)

(***************************************************************************)
(* C19: update(side, bid, ask, ts) overwrites that side's bid and ask      *)
(* (last write wins) and leaves the other side's bid and ask unchanged.    *)
(***************************************************************************)
C19_UpdateFrame ==
    [][call'.f = "update" =>
         /\ best_bid(book', call'.side) = call'.bid
         /\ best_ask(book', call'.side) = call'.ask
         /\ best_bid(book', opposite(call'.side)) = best_bid(book, opposite(call'.side))
         /\ best_ask(book', opposite(call'.side)) = best_ask(book, opposite(call'.side))]_vars

\* a second write to YES with the NO side holding another quote
C19_Witness ==
    /\ call.f = "update"
    /\ call.side = "Yes"
    /\ call.timestamp_ms = 2
    /\ book.yes_bid = 0 /\ book.yes_ask = 480
    /\ book.no_bid = 480 /\ book.no_ask = 1000

(***************************************************************************)
(* feeds/polymarket.rs: the book feed task; feeds/binance.rs: the price    *)
(* feed task; main.rs: the main loop receiving from the channel.           *)
(*                                                                         *)
(* A price string is parsed to f64, multiplied by 1000.0 and cast with     *)
(* `as u16`.  The f64 part is tabulated for the strings the model sends:   *)
(* parse_f64 gives the product p * 1000.0 truncated toward zero (milli),   *)
(* or NaN, or a parse error.  The cast saturates: NaN and negative values  *)
(* become 0, values above u16::MAX become 65535.                           *)
(***************************************************************************)
Missing == "(missing)"      \* Option<String>::None of a BestBidAsk field

ParseError == [ok |-> FALSE, nan |-> FALSE, milli |-> 0]
Float(milli) == [ok |-> TRUE, nan |-> FALSE, milli |-> milli]
NaN == [ok |-> TRUE, nan |-> TRUE, milli |-> 0]

parse_f64(str) ==
    CASE str = "0.48" -> Float(480)
      [] str = "0.52" -> Float(520)
      [] str = "1" -> Float(1000)
      [] str = "1.001" -> Float(1000)      \* 1000.9999999999999
      [] str = "1.5" -> Float(1500)
      [] str = "70" -> Float(70000)
      [] str = "-0.2" -> Float(-200)
      [] str = "97000" -> Float(97000000)
      [] str = "NaN" -> NaN
      [] OTHER -> ParseError               \* "abc", ""

as_u16(p) ==
    IF p.nan THEN 0
    ELSE IF p.milli < 0 THEN 0
    ELSE IF p.milli > 65535 THEN 65535
    ELSE p.milli

\* Option<String> -> Option<u16>
parse_price(field) ==
    IF field = Missing THEN None
    ELSE IF ~parse_f64(field).ok THEN None
    ELSE as_u16(parse_f64(field))

BookUpdateEvent(side, bid, ask) ==
    [type |-> "BookUpdate", side |-> side, bid |-> bid, ask |-> ask]

BtcPriceEvent(price) == [type |-> "BtcPrice", price |-> price]

OrderFillEvent(order_id, side, price, size) ==
    [type |-> "OrderFill", order_id |-> order_id, side |-> side,
     price |-> price, size |-> size]

TickEvent == [type |-> "Tick"]

ShutdownEvent == [type |-> "Shutdown"]

\* a websocket message as the book feed sees it.  json: the text
\* deserializes into BestBidAsk; boundary: byte min(len, 200) of the text
\* is a char boundary
Frame(kind, json, boundary, event_type, asset, bid, ask) ==
    [kind |-> kind, json |-> json, boundary |-> boundary,
     event_type |-> event_type, asset_id |-> asset, best_bid |-> bid,
     best_ask |-> ask]

Quote(asset, bid, ask) ==
    Frame("text", TRUE, TRUE, "best_bid_ask", asset, bid, ask)

FeedPrices == {<<"0.48", "0.52">>, <<"0.48", "1.5">>, <<"-0.2", "-0.2">>}
FeedAssets == {"yes_token", "no_token"}
FeedQuotes == {Quote(a, q[1], q[2]) : a \in FeedAssets, q \in FeedPrices}
FeedMalformed ==
    {Quote("other_token", "0.48", "0.52"),
     Quote(Missing, "0.48", "0.52"),
     Quote("yes_token", "abc", "0.52"),
     Quote("yes_token", "0.48", Missing),
     Quote("no_token", Missing, "abc"),
     Frame("text", TRUE, TRUE, "book", "yes_token", "0.48", "0.52"),
     Frame("text", TRUE, TRUE, Missing, "yes_token", "0.48", "0.52"),
     Frame("text", FALSE, TRUE, Missing, Missing, Missing, Missing),
     Frame("text", FALSE, FALSE, Missing, Missing, Missing, Missing)}
FeedFrames ==
    FeedQuotes \cup FeedMalformed \cup
    {Frame("binary", FALSE, TRUE, Missing, Missing, Missing, Missing)}

\* history only: how the message read last is to be told apart afterwards
frame_kind(msg) ==
    IF msg \in FeedQuotes THEN "quote"
    ELSE IF msg \in FeedMalformed THEN "malformed" ELSE "other"

\* history only: <<side, bid, ask>> of a valid best_bid_ask message as the
\* feed (with its two tokens) reads it, <<>> for every other message
frame_quote(self, msg) ==
    IF msg \in FeedQuotes
    THEN <<IF msg.asset_id = self.yes_token THEN "Yes" ELSE "No",
           parse_price(msg.best_bid), parse_price(msg.best_ask)>>
    ELSE <<>>

\* one pass of the `while let Some(msg)` body on Ok(msg): what it leaves in
\* last_yes, last_no, what it sends, and whether the task panicked
on_message(self, msg, ly, ln) ==
    LET nothing == [last_yes |-> ly, last_no |-> ln, sent |-> <<>>, panic |-> FALSE]
        asset_id == IF msg.asset_id = Missing THEN "" ELSE msg.asset_id
        side == IF asset_id = self.yes_token THEN "Yes"
                ELSE IF asset_id = self.no_token THEN "No" ELSE Missing
        bid == parse_price(msg.best_bid)
        ask == parse_price(msg.best_ask)
    IN  IF msg.kind # "text" THEN nothing
        ELSE IF ~msg.json
             THEN [nothing EXCEPT !.panic = ~msg.boundary]
        ELSE IF msg.event_type # "best_bid_ask" THEN nothing
        ELSE IF side = Missing \/ bid = None \/ ask = None THEN nothing
        ELSE IF side = "Yes"
             THEN [last_yes |-> <<bid, ask>>, last_no |-> ln,
                   sent |-> IF <<bid, ask>> # ly
                            THEN <<BookUpdateEvent("Yes", bid, ask)>> ELSE <<>>,
                   panic |-> FALSE]
             ELSE [last_yes |-> ly, last_no |-> <<bid, ask>>,
                   sent |-> IF <<bid, ask>> # ln
                            THEN <<BookUpdateEvent("No", bid, ask)>> ELSE <<>>,
                   panic |-> FALSE]

\* history: the last pair sent per side, after `sent` has gone out
Emitted(em, sent) ==
    IF sent = <<>> THEN em
    ELSE [em EXCEPT ![sent[1].side] = <<sent[1].bid, sent[1].ask>>]

FeedOthers == <<trackerVars, positionVars, reconcileVars, rtVars, callVars, updated>>

\* the tasks run as long as main is in its loop (they die with the process)
Running == mainPc = "recv"

\* connect_async: Ok goes on to subscribe, Err goes to the 5 s sleep
FeedConnect ==
    /\ Running
    /\ feedPc = "connect"
    /\ \E ok \in BOOLEAN : feedPc' = IF ok THEN "subscribe" ELSE "sleep"
    /\ UNCHANGED <<last_yes, last_no, chan, emitted, polyRead, binPc, mainPc,
                   feed, gamma, FeedOthers>>

\* write.send(subscribe): Err is `continue` (back to connect, no sleep)
FeedSubscribe ==
    /\ Running
    /\ feedPc = "subscribe"
    /\ \E ok \in BOOLEAN :
          /\ feedPc' = IF ok THEN "read" ELSE "connect"
          /\ last_yes' = IF ok THEN <<0, 0>> ELSE last_yes
          /\ last_no' = IF ok THEN <<0, 0>> ELSE last_no
    /\ UNCHANGED <<chan, emitted, polyRead, binPc, mainPc, feed, gamma,
                   FeedOthers>>

\* read.next() gives Some(Ok(msg)); tx.send waits while the channel is full
FeedRead ==
    /\ Running
    /\ feedPc = "read"
    /\ \E msg \in FeedFrames :
          LET r == on_message(feed, msg, last_yes, last_no)
          IN  /\ Len(chan) + Len(r.sent) <= MaxChan
              /\ last_yes' = r.last_yes
              /\ last_no' = r.last_no
              /\ chan' = chan \o r.sent
              /\ emitted' = Emitted(emitted, r.sent)
              /\ polyRead' = [kind |-> frame_kind(msg), tick |-> ~polyRead.tick,
                               quote |-> frame_quote(feed, msg)]
              /\ feedPc' = IF r.panic THEN "panicked" ELSE "read"
    /\ UNCHANGED <<binPc, mainPc, feed, gamma, FeedOthers>>

\* read.next() gives Some(Err(e)) (break) or None: on to the 5 s sleep
FeedDisconnect ==
    /\ Running
    /\ feedPc = "read"
    /\ feedPc' = "sleep"
    /\ UNCHANGED <<last_yes, last_no, chan, emitted, polyRead, binPc, mainPc,
                   feed, gamma, FeedOthers>>

\* tokio::time::sleep(5 s) is over: back to the top of the loop
FeedSleep ==
    /\ Running
    /\ feedPc = "sleep"
    /\ feedPc' = "connect"
    /\ UNCHANGED <<last_yes, last_no, chan, emitted, polyRead, binPc, mainPc,
                   feed, gamma, FeedOthers>>

(***************************************************************************)
(* feeds/binance.rs                                                        *)
(***************************************************************************)
\* json: the text deserializes into BinanceTrade
Trade(kind, json, price) == [kind |-> kind, json |-> json, price |-> price]

BinanceFrames ==
    {Trade("text", TRUE, "97000"), Trade("text", TRUE, "abc"),
     Trade("text", FALSE, Missing), Trade("binary", FALSE, Missing)}

\* what the message loop sends for one Ok(msg)
on_trade(msg) ==
    IF msg.kind = "text" /\ msg.json /\ parse_f64(msg.price).ok
    THEN <<BtcPriceEvent(parse_f64(msg.price))>>
    ELSE <<>>

BinanceOthers == <<feedPc, last_yes, last_no, emitted, polyRead, mainPc, feed,
                   gamma, FeedOthers>>

\* connect_async: Ok goes on to read, Err goes to the 5 s sleep
BinanceConnect ==
    /\ Running
    /\ binPc = "connect"
    /\ \E ok \in BOOLEAN : binPc' = IF ok THEN "read" ELSE "sleep"
    /\ UNCHANGED <<chan, BinanceOthers>>

BinanceRead ==
    /\ Running
    /\ binPc = "read"
    /\ \E msg \in BinanceFrames :
          /\ Len(chan) + Len(on_trade(msg)) <= MaxChan
          /\ chan' = chan \o on_trade(msg)
    /\ UNCHANGED <<binPc, BinanceOthers>>

\* read.next() gives Some(Err(e)) (break) or None
BinanceDisconnect ==
    /\ Running
    /\ binPc = "read"
    /\ binPc' = "sleep"
    /\ UNCHANGED <<chan, BinanceOthers>>

BinanceSleep ==
    /\ Running
    /\ binPc = "sleep"
    /\ binPc' = "connect"
    /\ UNCHANGED <<chan, BinanceOthers>>

(***************************************************************************)
(* main.rs: the event loop                                                 *)
(***************************************************************************)
\* variant: Shutdown is handled like the events of the `_ => {}` arm
MainRecvIgnoringShutdown ==
    /\ mainPc = "recv"
    /\ chan # <<>>
    /\ chan' = Tail(chan)
    /\ mainPc' = "recv"
    /\ UNCHANGED <<feedPc, last_yes, last_no, emitted, polyRead, binPc, feed,
                   gamma, FeedOthers>>

\* rx.recv() takes one event: BtcPrice and BookUpdate are printed, Shutdown
\* breaks the loop, the other events fall in `_ => {}`
MainRecv ==
    /\ mainPc = "recv"
    /\ chan # <<>>
    /\ chan' = Tail(chan)
    /\ mainPc' = IF Head(chan).type = "Shutdown" THEN "stopped" ELSE "recv"
    /\ UNCHANGED <<feedPc, last_yes, last_no, emitted, polyRead, binPc, feed,
                   gamma, FeedOthers>>

NextFeed ==
    \/ FeedConnect
    \/ FeedSubscribe
    \/ FeedRead
    \/ FeedDisconnect
    \/ FeedSleep
    \/ BinanceConnect
    \/ BinanceRead
    \/ BinanceDisconnect
    \/ BinanceSleep
    \/ MainRecv

SpecFeed == Init /\ [][NextFeed]_vars


(***************************************************************************)
(* C20: every bid and ask carried by a BookUpdate event emitted by the     *)
(* book feed, and every bid and ask stored in Book in any reachable state, *)
(* is an integer in [0, 1000], whatever price strings the exchange sends.  *)
(***************************************************************************)
InTickRange(x) == x \in 0..1000

C20_TickRange ==
    /\ \A i \in 1..Len(chan) :
          chan[i].type = "BookUpdate" =>
              InTickRange(chan[i].bid) /\ InTickRange(chan[i].ask)
    /\ \A side \in Sides :
          /\ best_bid(book, side) # None => InTickRange(best_bid(book, side))
          /\ best_ask(book, side) # None => InTickRange(best_ask(book, side))

(***************************************************************************)
(* C21: in the sequence of events the book feed puts on the channel,       *)
(* across any sequence of received quotes, read errors and reconnects, no  *)
(* two consecutive BookUpdate events for the same side carry the same      *)
(* (bid, ask) pair.                                                        *)
(***************************************************************************)
C21_ChangeOnlyEvents ==
    [][Len(chan') > Len(chan) /\ chan'[Len(chan')].type = "BookUpdate" =>
         LET e == chan'[Len(chan')]
         IN  emitted[e.side] # <<e.bid, e.ask>>]_vars

(***************************************************************************)
(* C22: after every transport failure of the book feed or the price feed   *)
(* (failed connect, failed subscribe send, read error, end of stream) the  *)
(* feed performs the fixed reconnect delay before its next connection      *)
(* attempt; no two connection attempts of one feed occur without a delay   *)
(* step between them.                                                      *)
(***************************************************************************)
C22_ReconnectDelay ==
    [][/\ (feedPc' = "connect" /\ feedPc # "connect") => feedPc = "sleep"
       /\ (binPc' = "connect" /\ binPc # "connect") => binPc = "sleep"]_vars

(***************************************************************************)
(* C23: from every reachable state of a feed task, whatever sequence of    *)
(* connect failures and read errors has occurred, the task eventually      *)
(* attempts to connect again; no transport error ends a feed task or the   *)
(* consumer loop.  Stated in the form a finite run refutes: a task that    *)
(* will connect again is connecting, subscribing, reading or waiting out   *)
(* its delay, and the consumer is in its loop.                             *)
(***************************************************************************)
C23_RetryIndefinitely ==
    /\ feedPc \in {"connect", "subscribe", "read", "sleep"}
    /\ binPc \in {"connect", "read", "sleep"}
    /\ mainPc = "recv"

(***************************************************************************)
(* C24: a malformed feed payload (unparseable JSON, wrong event type,      *)
(* unknown asset id, missing or non-numeric price) is dropped: it puts no  *)
(* event on the channel, does not change the feed's last (bid, ask)        *)
(* records, does not terminate the feed task, and the feed keeps reading   *)
(* the same connection.                                                    *)
(***************************************************************************)
C24_MalformedDropped ==
    [][polyRead'.tick # polyRead.tick /\ polyRead'.kind = "malformed" =>
         /\ chan' = chan
         /\ last_yes' = last_yes
         /\ last_no' = last_no
         /\ emitted' = emitted
         /\ feedPc' = "read"]_vars

(***************************************************************************)
(* The consumer: the queued events are drawn by the initial state, each    *)
(* pass of main's loop takes one.  The tracker holds orders a and b on YES *)
(* so that a fill of a has an order to meet.                               *)
(***************************************************************************)
ConsumerEvents ==
    {BtcPriceEvent(Float(97000000)), BookUpdateEvent("Yes", 480, 520),
     OrderFillEvent("a", "Yes", 480, 1), TickEvent, ShutdownEvent}

RECURSIVE Queues(_)
Queues(n) ==
    IF n = 0 THEN {<<>>}
    ELSE Queues(n - 1) \cup
         {Append(q, e) : q \in {r \in Queues(n - 1) : Len(r) = n - 1},
                         e \in ConsumerEvents}

InitConsumer ==
    /\ tracker = ScenarioD
    /\ last = NoCall
    /\ PositionInit
    /\ ReconcileInit0
    /\ RoundTripInit0
    /\ CallInit0
    /\ updated = {}
    /\ feedPc = "connect"
    /\ last_yes = <<0, 0>>
    /\ last_no = <<0, 0>>
    /\ chan \in Queues(MaxQueue)
    /\ emitted = [side \in Sides |-> <<None, None>>]
    /\ polyRead = [kind |-> "none", tick |-> FALSE, quote |-> <<>>]
    /\ binPc = "connect"
    /\ mainPc = "recv"
    /\ feed = [yes_token |-> "yes_token", no_token |-> "no_token"]
    /\ gamma = Answer(TRUE, 200, TRUE, TRUE, <<"yes_token", "no_token">>)

\* the feeds connect, fail and wait meanwhile; they read nothing, so the
\* queue holds the drawn events only
NextConsumer ==
    \/ MainRecv
    \/ FeedConnect
    \/ FeedSubscribe
    \/ FeedDisconnect
    \/ FeedSleep
    \/ BinanceConnect
    \/ BinanceDisconnect
    \/ BinanceSleep

SpecConsumer == InitConsumer /\ [][NextConsumer]_vars

(***************************************************************************)
(* C25: the consumer loop stops if and only if it dequeues a Shutdown      *)
(* event; once Shutdown has been dequeued no further event is processed    *)
(* even if events remain queued, and no other event or feed failure makes  *)
(* the loop exit.                                                          *)
(***************************************************************************)
C25_CooperativeShutdown ==
    [][/\ (mainPc = "recv" /\ Len(chan') < Len(chan)) =>
             (mainPc' = "stopped" <=> Head(chan).type = "Shutdown")
       /\ (mainPc = "recv" /\ mainPc' # "recv") =>
             (Len(chan') < Len(chan) /\ Head(chan).type = "Shutdown")
       /\ mainPc = "stopped" => (mainPc' = "stopped" /\ chan' = chan)]_vars

\* the loop has stopped with an event still queued behind the Shutdown
C25_Witness ==
    /\ mainPc = "stopped"
    /\ chan # <<>>
    /\ Head(chan).type = "BookUpdate"

(***************************************************************************)
(* C26: the consumer applies each event's state mutation before taking     *)
(* the next event: after it has processed BookUpdate{side, bid, ask} the   *)
(* Book's best bid and ask for that side equal bid and ask; after it has   *)
(* processed OrderFill{order_id, side, price, size} the Position reflects  *)
(* the fill and the tracked order's remaining size is reduced.             *)
(***************************************************************************)
C26_EventsMutateState ==
    [][(mainPc = "recv" /\ Len(chan') < Len(chan)) =>
         LET e == Head(chan)
         IN  /\ e.type = "BookUpdate" =>
                   /\ best_bid(book', e.side) = e.bid
                   /\ best_ask(book', e.side) = e.ask
             /\ e.type = "OrderFill" =>
                   /\ qty(position', e.side) = qty(position, e.side) + e.size
                   /\ total_exposure(tracker', e.side)
                          = total_exposure(tracker, e.side) - e.size]_vars

(***************************************************************************)
(* api/gamma.rs: fetch_market_by_slug; main.rs: start-up.  The discovery   *)
(* answer is drawn by the initial state.                                   *)
(***************************************************************************)
Ok(v) == [ok |-> TRUE, value |-> v]
Err(e) == [ok |-> FALSE, value |-> e]

\* variant: the two token ids are taken in the other order
fetch_market_by_slug_swapped(g) ==
    IF ~g.sent THEN Err("send")
    ELSE IF g.status = 404 THEN Err("Market not found")
    ELSE IF ~g.json THEN Err("json")
    ELSE IF ~g.ids_json THEN Err("clob_token_ids")
    ELSE IF Len(g.token_ids) < 2 THEN Err("less than 2 tokens")
    ELSE Ok([yes_token |-> g.token_ids[2], no_token |-> g.token_ids[1]])

fetch_market_by_slug(g) ==
    IF ~g.sent THEN Err("send")
    ELSE IF g.status = 404 THEN Err("Market not found")
    ELSE IF ~g.json THEN Err("json")
    ELSE IF ~g.ids_json THEN Err("clob_token_ids")
    ELSE IF Len(g.token_ids) < 2 THEN Err("less than 2 tokens")
    ELSE Ok([yes_token |-> g.token_ids[1], no_token |-> g.token_ids[2]])

TokenIds == {"t1", "t2", "t3"}

RECURSIVE TokenLists(_)
TokenLists(n) ==
    IF n = 0 THEN {<<>>}
    ELSE TokenLists(n - 1) \cup
         {Append(q, t) : q \in {r \in TokenLists(n - 1) : Len(r) = n - 1},
                         t \in TokenIds}

GammaAnswers ==
    {Answer(FALSE, 0, FALSE, FALSE, <<>>),
     Answer(TRUE, 404, FALSE, FALSE, <<>>),
     Answer(TRUE, 200, FALSE, FALSE, <<>>),
     Answer(TRUE, 200, TRUE, FALSE, <<>>)}
    \cup {Answer(TRUE, 200, TRUE, TRUE, ids) : ids \in TokenLists(MaxTokens)}

InitStartup ==
    /\ TrackerInit
    /\ PositionInit
    /\ ReconcileInit0
    /\ RoundTripInit0
    /\ CallInit0
    /\ updated = {}
    /\ feedPc = "unspawned"
    /\ last_yes = <<0, 0>>
    /\ last_no = <<0, 0>>
    /\ chan = <<>>
    /\ emitted = [side \in Sides |-> <<None, None>>]
    /\ polyRead = [kind |-> "none", tick |-> FALSE, quote |-> <<>>]
    /\ binPc = "unspawned"
    /\ mainPc = "load_config"
    /\ feed = [yes_token |-> "", no_token |-> ""]
    /\ gamma \in GammaAnswers

StartupOthers == <<trackerVars, positionVars, reconcileVars, rtVars, updated,
                   last_yes, last_no, chan, emitted, polyRead, gamma>>

\* Config::load("config.toml").expect(..)
MainLoadConfig ==
    /\ mainPc = "load_config"
    /\ \E ok \in BOOLEAN : mainPc' = IF ok THEN "fetch_market" ELSE "panicked"
    /\ UNCHANGED <<callVars, feedPc, binPc, feed, StartupOthers>>

\* gamma::get_current_5m_market().await.expect(..)
MainFetchMarket ==
    /\ mainPc = "fetch_market"
    /\ call' = [f |-> "fetch_market_by_slug"]
    /\ result' = Returned(fetch_market_by_slug(gamma))
    /\ mainPc' = IF fetch_market_by_slug(gamma).ok THEN "spawn" ELSE "panicked"
    /\ UNCHANGED <<feedPc, binPc, feed, StartupOthers>>

\* mpsc::channel(100), PolymarketFeed::new(..).spawn(..), binance::spawn(..)
MainSpawn ==
    /\ mainPc = "spawn"
    /\ feed' = result.value.value
    /\ feedPc' = "connect"
    /\ binPc' = "connect"
    /\ mainPc' = "recv"
    /\ UNCHANGED <<callVars, StartupOthers>>

NextStartup ==
    \/ MainLoadConfig
    \/ MainFetchMarket
    \/ MainSpawn

SpecStartup == InitStartup /\ [][NextStartup]_vars

(***************************************************************************)
(* C28: if discovery answers not-found or returns fewer than two token     *)
(* ids, fetch_market_by_slug returns an error and the process stops before *)
(* the event channel is created, before any feed task is spawned and       *)
(* before any event is processed; on success token index 0 is YES and      *)
(* index 1 is NO.                                                          *)
(***************************************************************************)
DiscoveryFails ==
    gamma.sent /\ (gamma.status = 404 \/ (gamma.json /\ gamma.ids_json
                                             /\ Len(gamma.token_ids) < 2))

C28_DiscoveryFailureFatal ==
    /\ DiscoveryFails =>
          /\ mainPc \in {"load_config", "fetch_market", "panicked"}
          /\ feedPc = "unspawned" /\ binPc = "unspawned"
          /\ chan = <<>>
          /\ call.f = "fetch_market_by_slug" =>
                (~result.value.ok /\ mainPc = "panicked")
    /\ mainPc = "recv" =>
          /\ Len(gamma.token_ids) >= 2
          /\ feed.yes_token = gamma.token_ids[1]
          /\ feed.no_token = gamma.token_ids[2]

\* one token id only: the fetch has failed and nothing was spawned
C28_Witness ==
    /\ call.f = "fetch_market_by_slug"
    /\ gamma.status = 200
    /\ Len(gamma.token_ids) = 1
    /\ mainPc = "panicked"
    /\ feedPc = "unspawned"

(***************************************************************************)
(* C29: update_fill with a filled size of 0, or with an order id that is   *)
(* not stored on the given side, leaves the whole tracker unchanged.       *)
(* (last'.price = None records that the id was not found.)                 *)
(***************************************************************************)
C29_ZeroEffectFills ==
    [][(last'.op = "update_fill" /\ (last'.size = 0 \/ last'.price = None))
          => tracker' = tracker]_vars

(***************************************************************************)
(* Fill notifications: the position and a tracker holding one order per    *)
(* side receive fills in any order and any number of times.                *)
(***************************************************************************)
FillsTracker == add(add(OrderTrackerNew, "Yes", "a", 450, 3), "No", "b", 440, 2)

InitFills ==
    /\ tracker = FillsTracker
    /\ last = NoCall
    /\ PositionInit
    /\ ReconcileInit0
    /\ RoundTripInit0
    /\ RestInit0

\* a fill notification reaches the position
FillsApplyFill ==
    /\ Len(fills) < MaxRepeat
    /\ ApplyFill

NextFills ==
    \/ FillsApplyFill
    \/ TrackerUpdateFill

SpecFills == InitFills /\ [][NextFills]_vars

\* the remaining size stored for the id on the side, None when not stored
RemainingOf(t, side, id) ==
    IF BucketsWithId(t, side, id) = {} THEN None
    ELSE LET p == CHOOSE q \in BucketsWithId(t, side, id) : TRUE
         IN orders(t, side)[p][FirstIdx(orders(t, side)[p], id)].remaining_size

\* this step applies to the position the fill that was applied last
RepeatedApplyFill ==
    /\ fills # <<>>
    /\ fills' = Append(fills, fills[Len(fills)])
    /\ fills[Len(fills)].size # 0

\* this step hands update_fill the arguments of the previous call, which
\* had found the order
RepeatedUpdateFill ==
    /\ last.op = "update_fill" /\ last'.op = "update_fill"
    /\ last' # last
    /\ last'.side = last.side /\ last'.id = last.id /\ last'.size = last.size
    /\ last.size # 0
    /\ last.price # None

(***************************************************************************)
(* C30: fills are not de-duplicated.  Applying the same non-zero fill a    *)
(* second time adds it to the position again (the side's quantity and cost *)
(* have grown by twice the fill), and handing update_fill the same         *)
(* non-zero fill again decrements the order's remaining size again while   *)
(* the order is still tracked: from r it goes to r - 2f, or the order is   *)
(* dropped when that is <= 0; neither operation is idempotent.             *)
(***************************************************************************)
C30_FillsNotDeduplicated ==
    [][/\ RepeatedApplyFill =>
            LET x == fills[Len(fills)]
                before == SubSeq(fills, 1, Len(fills) - 1)
            IN /\ qty(position', x.side) = FilledSize(before, x.side) + 2 * x.size
               /\ cost(position', x.side) =
                     FilledCost(before, x.side) + 2 * x.price * x.size
               /\ position' # position
       /\ RepeatedUpdateFill =>
            LET r == last.ret.remaining_size
                f == last.size
            IN IF r - f > 0
               THEN /\ last'.price = last.price
                    /\ last'.ret.remaining_size = r - f
                    /\ RemainingOf(tracker', last.side, last.id) =
                          IF r - 2 * f > 0 THEN r - 2 * f ELSE None
                    /\ tracker' # tracker
               ELSE last'.price = None /\ tracker' = tracker]_vars

\* the same fill of 1 was applied twice to order a (3 -> 1) and twice to the
\* position (20 contracts for two fills of 10)
C30_Witness ==
    /\ Len(fills) = 2 /\ fills[1] = fills[2] /\ fills[1].size = 10
    /\ qty(position, fills[1].side) = 20
    /\ last.op = "update_fill" /\ last.id = "a" /\ last.size = 1
    /\ last.ret.remaining_size = 2
    /\ RemainingOf(tracker, "Yes", "a") = 1

(***************************************************************************)
(* C31: tick arithmetic never panics or wraps.  A call of calc_max_bid or  *)
(* build_ladder returns (no panic), calc_max_bid's value is the difference *)
(* clamped at 0, and every rung offset i * rung_spacing of the loop is the *)
(* mathematical product (the 16-bit product has not wrapped).              *)
(***************************************************************************)
LoopRuns(top, size) == ~(top = 0 \/ size = 0)

OffsetsExact(config) ==
    \A i \in 0..(config.ladder_rungs - 1) :
        MulU16(i, config.rung_spacing) = i * config.rung_spacing

C31_NoPanicNoWrap ==
    /\ call.f = "calc_max_bid" =>
          /\ ~result.panic
          /\ result.value \in 0..1000
    /\ call.f = "build_ladder" =>
          /\ ~result.panic
          /\ LoopRuns(call.top_price, call.size) => OffsetsExact(call.config)
    /\ call.f = "ladder_of_max_bid" =>
          /\ ~result.panic
          /\ LoopRuns(calc_max_bid(call.side, book, call.margin_ticks), call.size)
                => OffsetsExact(call.config)

(***************************************************************************)
(* C34: no quote change is lost by the book feed.  Whenever the feed reads *)
(* a valid best_bid_ask message whose (bid, ask) pair differs from the     *)
(* last pair it emitted for that side (nothing emitted yet counts as       *)
(* different), that read sends a BookUpdate with the pair, the first quote *)
(* after a connect or reconnect and the pair (0, 0) included; the last     *)
(* emitted pair then equals the last valid pair received.                  *)
(***************************************************************************)
C34_NoQuoteChangeLost ==
    [][polyRead'.tick # polyRead.tick /\ polyRead'.kind = "quote" =>
         LET q == polyRead'.quote
         IN  /\ <<q[2], q[3]>> # emitted[q[1]] =>
                   /\ chan' = Append(chan, BookUpdateEvent(q[1], q[2], q[3]))
             /\ emitted'[q[1]] = <<q[2], q[3]>>]_vars

(***************************************************************************)
(* C32: side isolation in the tracker.  add, remove_by_id,                 *)
(* remove_at_price, update_fill and clear applied to one side leave the    *)
(* other side's orders, their remaining sizes and every query result of    *)
(* the other side unchanged.                                               *)
(***************************************************************************)
SideOps == {"add", "remove_by_id", "remove_at_price", "update_fill", "clear"}

\* the queries that are not already the bucket map itself
SameQueries(t1, t2, side) ==
    /\ prices(t1, side) = prices(t2, side)
    /\ count(t1, side) = count(t2, side)
    /\ top_price(t1, side) = top_price(t2, side)
    /\ bottom_price(t1, side) = bottom_price(t2, side)
    /\ total_exposure(t1, side) = total_exposure(t2, side)
    /\ has_orders(t1, side) = has_orders(t2, side)
    /\ \A p \in TrackerPrices :
          /\ orders_at_price(t1, side, p) = orders_at_price(t2, side, p)
          /\ total_size_at_price(t1, side, p) = total_size_at_price(t2, side, p)

C32_SideIsolation ==
    [][last'.op \in SideOps =>
         /\ orders(tracker', opposite(last'.side)) =
               orders(tracker, opposite(last'.side))
         /\ SameQueries(tracker', tracker, opposite(last'.side))]_vars

\* a fill has just met an order on one side while the other side holds one
C32_Witness ==
    /\ last.op = "update_fill"
    /\ last.price # None
    /\ last.size > 0
    /\ has_orders(tracker, opposite(last.side))

(***************************************************************************)
(* C33: update_fill changes at most one stored order, and removes an order *)
(* only if that order's own remaining size has reached <= 0; an order      *)
(* whose remaining size is still > 0 is neither removed nor altered, also  *)
(* when add has stored the same id more than once.                         *)
(***************************************************************************)
C33_FillTouchesOneOrder ==
    [][last'.op = "update_fill" =>
         LET s == last'.side
             m == orders(tracker, s)
             f == last'.size
         IN /\ orders(tracker', opposite(s)) = orders(tracker, opposite(s))
            /\ \/ orders(tracker', s) = m
               \/ \E slot \in Slots(tracker, s) :
                     LET p == slot[1]
                         i == slot[2]
                         rem == m[p][i].remaining_size - f
                         dec == [m[p] EXCEPT ![i].remaining_size = rem]
                         rest == VecRemove(m[p], i)
                     IN \/ orders(tracker', s) = MapPut(m, p, dec)
                        \/ /\ rem <= 0
                           /\ orders(tracker', s) =
                                 IF rest = <<>> THEN MapRemove(m, p)
                                 ELSE MapPut(m, p, rest)]_vars

(***************************************************************************)
(* C36: in every reachable tracker state and for each side, has_orders is  *)
(* true iff count > 0 iff top_price is present iff bottom_price is         *)
(* present; when present, bottom_price <= top_price and both are prices at *)
(* which at least one order with remaining_size > 0 is stored.             *)
(***************************************************************************)
HoldsLiveOrder(t, side, p) ==
    /\ p \in DOMAIN orders(t, side)
    /\ \E i \in 1..Len(orders(t, side)[p]) :
          orders(t, side)[p][i].remaining_size > 0

C36_QueriesAgree ==
    \A side \in Sides :
        /\ has_orders(tracker, side) <=> count(tracker, side) > 0
        /\ has_orders(tracker, side) <=> top_price(tracker, side) # None
        /\ has_orders(tracker, side) <=> bottom_price(tracker, side) # None
        /\ top_price(tracker, side) # None =>
              /\ bottom_price(tracker, side) <= top_price(tracker, side)
              /\ HoldsLiveOrder(tracker, side, top_price(tracker, side))
              /\ HoldsLiveOrder(tracker, side, bottom_price(tracker, side))

(***************************************************************************)
(* C37: the position limit never blocks both sides at once.  For every     *)
(* position built by fills and every max_position > 0, can_place holds for *)
(* YES or for NO, and the side whose quantity is smaller or equal can      *)
(* always place.                                                           *)
(***************************************************************************)
C37_NeverBothBlocked ==
    (call.f = "can_place" /\ call.max_position > 0) =>
        /\ result.value \/ can_place(opposite(call.side), position, call.max_position)
        /\ qty(position, call.side) <= qty(position, opposite(call.side))
              => result.value

\* the heavier side is blocked, the lighter side can place
C37_Witness ==
    /\ call.f = "can_place"
    /\ call.max_position = 50
    /\ qty(position, call.side) = 150
    /\ qty(position, opposite(call.side)) = 0
    /\ ~result.value
    /\ can_place(opposite(call.side), position, call.max_position)

(***************************************************************************)
(* C38: quoting is never switched off by time.  For every time_remaining,  *)
(* 0 and negative values included, calc_size returns a positive size, the  *)
(* final tier (7 for 5-minute, 12 for 15-minute) once nothing is left;     *)
(* calc_size_with_limit returns 0 only when the side is at or over the     *)
(* position limit.                                                         *)
(***************************************************************************)
C38_NeverOffByTime ==
    /\ call.f = "calc_size" =>
          /\ result.value > 0
          /\ call.time_remaining_secs <= 0 =>
                result.value = IF call.duration = "FiveMin" THEN 7 ELSE 12
    /\ call.f = "calc_size_with_limit" =>
          /\ result.value = 0 => Exposure(call.side) >= call.max_position
          /\ (Exposure(call.side) < call.max_position
                /\ call.time_remaining_secs <= 0) =>
                result.value = IF call.duration = "FiveMin" THEN 7 ELSE 12

\* the market has ended and the side under its limit is still sized
C38_Witness ==
    /\ call.f = "calc_size_with_limit"
    /\ call.time_remaining_secs = 0
    /\ call.duration = "FifteenMin"
    /\ Exposure(call.side) < call.max_position
    /\ result.value = 12

(***************************************************************************)
(* C39: sync is stable between resets.  Once is_synced() is true it stays  *)
(* true under every update and becomes false only through reset, after     *)
(* which the book equals a default book.                                   *)
(***************************************************************************)
C39_SyncStable ==
    [][/\ (is_synced(book) /\ call'.f = "update") => is_synced(book')
       /\ (is_synced(book) /\ ~is_synced(book')) => call'.f = "reset"
       /\ call'.f = "reset" => (book' = BookDefault /\ ~is_synced(book'))]_vars

\* a synced book whose last update wrote the pair (0, 0): still synced
C39_Witness ==
    /\ call.f = "update"
    /\ call.bid = 0 /\ call.ask = 0
    /\ call.timestamp_ms = 2
    /\ book.last_update_ms = 2
    /\ is_synced(book)
====
